---- MODULE Spec2Model ----
(***************************************************************************)
(* Metrics instrumentation of the product-service and the user-service:    *)
(* the metric catalogs, the measurement decorators (track_endpoint_metrics,*)
(* track_database_query, track_cache_operation, track_auth_operation), the *)
(* business-event recorders, the exposition (get_metrics) and the          *)
(* product-service request path (track_requests middleware and routes).    *)
(*                                                                         *)
(* Durations are in milliseconds (the source's seconds times 1000), so     *)
(* that every bucket bound of the source is an integer.                    *)
(***************************************************************************)
EXTENDS Integers, Sequences, FiniteSets, TLC

\* Number of calls (wrapped calls, recorder calls, requests) in one behaviour.
NumCalls == 2

Calls == 1..NumCalls

Services == {"product", "user"}

VARIABLES
    service,    \* which service this process is: each has its own metrics module
    registry,   \* registry[name]: the instances of metric name, in creation order
    call,       \* call[c]: the frame of call c (its position and its locals)
    trace,      \* trace[c]: the metric updates call c has made so far, in order
    hist        \* a histogram instance observed on its own (SpecHist)

vars == <<service, registry, call, trace, hist>>

-----------------------------------------------------------------------------
(* Python values and failures that a wrapped operation can produce.        *)

\* The Response objects, which have a status_code attribute; the other
\* values ("dict", "row", "None", "''", "'v'") have none.
ResponseValues == {"Response201", "Response404"}

\* hasattr(response, 'status_code')
HasStatusCode(v) == v \in ResponseValues

\* response.status_code
StatusCodeOf(v) == IF v = "Response201" THEN 201 ELSE 404

\* Variant of IsException: what `except BaseException` would catch.
IsBaseException(e) == e \in {"ValueError", "HTTPException", "CancelledError"}

\* What `except Exception` catches: ValueError and HTTPException derive from
\* Exception; asyncio.CancelledError derives from BaseException only.
IsException(e) == e \in {"ValueError", "HTTPException"}

\* str() of a status code, as the label value the client library stores.
StatusLabel(code) ==
    CASE code = 200 -> "200"
      [] code = 201 -> "201"
      [] code = 404 -> "404"
      [] code = 500 -> "500"
      [] OTHER -> "?"

NoOutcome == <<"none", "">>

Returned(v) == <<"return", v>>

Raised(e) == <<"raise", e>>

-----------------------------------------------------------------------------
(* The metric catalogs: the module-level Counter/Gauge/Histogram objects.  *)

http_buckets == <<10, 50, 100, 500, 1000, 2000, 5000, 10000>>

database_buckets == <<1, 5, 10, 50, 100, 500, 1000>>

redis_buckets == <<1, 5, 10, 50, 100>>

auth_buckets == <<10, 50, 100, 500, 1000>>

Metric(name, kind, labelnames, buckets) ==
    [name |-> name, kind |-> kind, labelnames |-> labelnames, buckets |-> buckets]

ProductCatalog ==
    << Metric("product_views_total", "counter", <<"product_id", "product_name", "category">>, <<>>),
       Metric("products_added_to_cart_total", "counter", <<"product_id", "product_name">>, <<>>),
       Metric("product_search_queries_total", "counter", <<"search_type">>, <<>>),
       Metric("product_inventory_level", "gauge", <<"product_id", "product_name">>, <<>>),
       Metric("product_current_price", "gauge", <<"product_id", "product_name", "currency">>, <<>>),
       Metric("http_requests_total", "counter", <<"method", "endpoint", "status">>, <<>>),
       Metric("http_request_duration_seconds", "histogram", <<"method", "endpoint">>, http_buckets),
       Metric("database_query_duration_seconds", "histogram", <<"operation", "table">>, database_buckets),
       Metric("database_connections_active", "gauge", <<>>, <<>>),
       Metric("database_connections_idle", "gauge", <<>>, <<>>),
       Metric("database_connections_max", "gauge", <<>>, <<>>),
       Metric("redis_cache_hits_total", "counter", <<"cache_key_type">>, <<>>),
       Metric("redis_cache_misses_total", "counter", <<"cache_key_type">>, <<>>),
       Metric("redis_operations_total", "counter", <<"operation">>, <<>>),
       Metric("redis_operation_duration_seconds", "histogram", <<"operation">>, redis_buckets) >>

UserCatalog ==
    << Metric("user_registrations_total", "counter", <<"source">>, <<>>),
       Metric("user_login_attempts_total", "counter", <<"status", "method">>, <<>>),
       Metric("user_active_sessions", "gauge", <<>>, <<>>),
       Metric("user_sessions_created_total", "counter", <<>>, <<>>),
       Metric("http_requests_total", "counter", <<"method", "endpoint", "status">>, <<>>),
       Metric("http_request_duration_seconds", "histogram", <<"method", "endpoint">>, http_buckets),
       Metric("auth_operation_duration_seconds", "histogram", <<"operation">>, auth_buckets),
       Metric("database_query_duration_seconds", "histogram", <<"operation", "table">>, database_buckets),
       Metric("database_connections_active", "gauge", <<>>, <<>>),
       Metric("database_connections_idle", "gauge", <<>>, <<>>),
       Metric("failed_login_attempts_by_ip", "counter", <<"ip_address">>, <<>>) >>

Catalog(svc) == IF svc = "product" THEN ProductCatalog ELSE UserCatalog

RECURSIVE BucketsOf(_, _)
BucketsOf(cat, name) ==
    IF cat = <<>> THEN <<>>
    ELSE IF Head(cat).name = name THEN Head(cat).buckets
    ELSE BucketsOf(Tail(cat), name)

RECURSIVE KindOf(_, _)
KindOf(cat, name) ==
    IF cat = <<>> THEN "none"
    ELSE IF Head(cat).name = name THEN Head(cat).kind
    ELSE KindOf(Tail(cat), name)

-----------------------------------------------------------------------------
(* The client library's metric objects and their update primitives.  Each  *)
(* metric object keeps its own children: one instance per label-value      *)
(* combination, in creation order.                                         *)

RECURSIVE Zeros(_)
Zeros(n) == IF n = 0 THEN <<>> ELSE Append(Zeros(n - 1), 0)

\* A fresh instance for one label-value combination: value 0; for a
\* histogram one cumulative count per bucket bound plus the +Inf bucket,
\* sum 0 and count 0.
NewInstance(labelvalues, kind, bounds) ==
    [labels |-> labelvalues, value |-> 0,
     bucket |-> IF kind = "histogram" THEN Zeros(Len(bounds) + 1) ELSE <<>>,
     sum |-> 0, count |-> 0]

\* Indexes of the instances of labelvalues among the children of a metric.
Found(children, labelvalues) ==
    {i \in 1..Len(children) : children[i].labels = labelvalues}

\* Variant of Labels: a first-use check that never finds the instance.
LabelsAlwaysCreate(children, labelvalues, kind, bounds) ==
    Append(children, NewInstance(labelvalues, kind, bounds))

\* metric.labels(...): the children after getting the instance of the label
\* values, created on first use; one atomic step of the library.
Labels(children, labelvalues, kind, bounds) ==
    IF Found(children, labelvalues) # {}
    THEN children
    ELSE Append(children, NewInstance(labelvalues, kind, bounds))

\* The instance that labels(...) hands to its caller.
IndexOf(children, labelvalues) ==
    CHOOSE i \in Found(children, labelvalues) :
        \A j \in Found(children, labelvalues) : i <= j

\* inc(amount) raises ValueError when amount < 0.
CounterIncFails(amount) == amount < 0

\* Variant of CounterInc: the amount is added without the sign check.
CounterIncUnchecked(inst, amount) == [inst EXCEPT !.value = @ + amount]

\* instance.inc(amount): the instance after the call; a call that fails
\* leaves it as it was.
CounterInc(inst, amount) ==
    IF CounterIncFails(amount) THEN inst ELSE [inst EXCEPT !.value = @ + amount]

\* instance.set(value)
GaugeSet(inst, value) == [inst EXCEPT !.value = value]

\* Variant of HistogramObserve: only the first bucket that holds v is
\* incremented (per-bucket rather than cumulative counts).
HistogramObserveOneBucket(inst, bounds, v) ==
    LET first == CHOOSE i \in 1..Len(inst.bucket) :
                    /\ i > Len(bounds) \/ v <= bounds[i]
                    /\ \A j \in 1..(i - 1) : v > bounds[j]
    IN [inst EXCEPT !.bucket[first] = @ + 1, !.sum = @ + v, !.count = @ + 1]

\* instance.observe(v) against the bucket bounds: every bucket whose bound is
\* >= v, and the +Inf bucket, is incremented; sum and count are updated.
HistogramObserve(inst, bounds, v) ==
    [inst EXCEPT
        !.bucket = [i \in 1..Len(inst.bucket) |->
                        IF i > Len(bounds) \/ v <= bounds[i]
                        THEN inst.bucket[i] + 1 ELSE inst.bucket[i]],
        !.sum = @ + v,
        !.count = @ + 1]

\* The children of metric name after labels(**labelvalues).
Child(svc, reg, name, labelvalues) ==
    Labels(reg[name], labelvalues, KindOf(Catalog(svc), name), BucketsOf(Catalog(svc), name))

\* Variant of Inc: labels(...) without the inc().
IncLabelsOnly(svc, reg, name, labelvalues) ==
    [reg EXCEPT ![name] = Child(svc, reg, name, labelvalues)]

\* Variant of Inc: the increment reaches every instance of the metric.
IncEveryChild(svc, reg, name, labelvalues) ==
    LET ch == Child(svc, reg, name, labelvalues)
    IN [reg EXCEPT ![name] = [k \in 1..Len(ch) |-> CounterInc(ch[k], 1)]]

\* metric.labels(**labelvalues).inc()
Inc(svc, reg, name, labelvalues) ==
    LET ch == Child(svc, reg, name, labelvalues)
        i == IndexOf(ch, labelvalues)
    IN [reg EXCEPT ![name] = [ch EXCEPT ![i] = CounterInc(ch[i], 1)]]

\* metric.labels(**labelvalues).inc(amount)
IncBy(svc, reg, name, labelvalues, amount) ==
    LET ch == Child(svc, reg, name, labelvalues)
        i == IndexOf(ch, labelvalues)
    IN [reg EXCEPT ![name] = [ch EXCEPT ![i] = CounterInc(ch[i], amount)]]

\* metric.labels(**labelvalues).set(value)
Set(svc, reg, name, labelvalues, value) ==
    LET ch == Child(svc, reg, name, labelvalues)
        i == IndexOf(ch, labelvalues)
    IN [reg EXCEPT ![name] = [ch EXCEPT ![i] = GaugeSet(ch[i], value)]]

\* metric.labels(**labelvalues).observe(v)
Observe(svc, reg, name, labelvalues, v) ==
    LET ch == Child(svc, reg, name, labelvalues)
        i == IndexOf(ch, labelvalues)
    IN [reg EXCEPT ![name] =
            [ch EXCEPT ![i] = HistogramObserve(ch[i], BucketsOf(Catalog(svc), name), v)]]

MetricNames(cat) == {cat[i].name : i \in 1..Len(cat)}

\* The metric objects of a freshly loaded metrics module: a metric with
\* label names has no child yet; a metric constructed without label names
\* is its own single instance, which exists from module load on.
ModuleLoad(cat) ==
    [name \in MetricNames(cat) |->
        LET m == CHOOSE x \in {cat[i] : i \in 1..Len(cat)} : x.name = name
        IN IF m.labelnames = <<>>
           THEN <<NewInstance(<<>>, m.kind, m.buckets)>>
           ELSE <<>>]

-----------------------------------------------------------------------------
(* The frame of a call.                                                    *)

Event(op, name, labelvalues, v) ==
    [op |-> op, name |-> name, labels |-> labelvalues, v |-> v]

\* pc: "idle", "await" (the wrapped operation is in flight), "hitmiss",
\* "finally", "observe", "done".  wrapper: the decorator or function called.
\* args: its arguments.  func: what the wrapped operation did.
\* pending: the return value or failure the frame is completing with.
\* out: what the caller received.  request: <<method, path>> of the HTTP
\* request that the call serves (<<>> for a direct call).  response: the
\* response that call_next handed to the middleware.  at: the number of
\* metric updates made in the process when the call rendered the exposition.
NoResponse == [status_code |-> 0, content |-> <<>>]

IdleCall ==
    [pc |-> "idle", wrapper |-> "none", args |-> <<>>,
     status_code |-> 0, duration |-> 0,
     func |-> NoOutcome, pending |-> NoOutcome, out |-> NoOutcome,
     request |-> <<>>, response |-> NoResponse, at |-> 0]

\* Readings of time.time() - start_time, in milliseconds.
Durations == {0, 20}

NoHist == [bounds |-> <<>>, inst |-> NewInstance(<<>>, "none", <<>>), observed |-> <<>>]

Init ==
    /\ service \in Services
    /\ registry = ModuleLoad(Catalog(service))
    /\ call = [c \in Calls |-> IdleCall]
    /\ trace = [c \in Calls |-> <<>>]
    /\ hist = NoHist

Log(c, ev) == trace' = [trace EXCEPT ![c] = Append(@, ev)]

\* The status of the response the framework builds from what a route handler
\* did: a Response keeps its status, any other value is serialised with 200,
\* an HTTPException becomes the error response it describes.
ResponseStatus(outcome) ==
    IF outcome[1] = "return"
    THEN IF HasStatusCode(outcome[2]) THEN StatusCodeOf(outcome[2]) ELSE 200
    ELSE 404

\* Variant of CallNext: the middleware records in a finally block, so a
\* failure out of call_next is counted too (as a 500).
CallNextFinally(f, outcome) ==
    [f EXCEPT !.pc = "mw_inc", !.out = outcome, !.duration = 0,
              !.response = [status_code |-> IF outcome[1] = "raise" /\ outcome[2] # "HTTPException"
                                            THEN 500 ELSE ResponseStatus(outcome),
                            content |-> <<>>]]

\* response = await call_next(request): the route handler completed with
\* outcome.  Another failure than an HTTPException comes out of call_next as
\* that failure; the middleware has no try block, so its frame ends with it.
CallNext(f, outcome) ==
    IF outcome[1] = "raise" /\ outcome[2] # "HTTPException"
    THEN [f EXCEPT !.pc = "done", !.out = outcome, !.duration = 0]
    ELSE [f EXCEPT !.pc = "mw_inc", !.out = outcome, !.duration = 0,
                   !.response = [status_code |-> ResponseStatus(outcome), content |-> <<>>]]

\* The frame of a decorator ends: its caller (the caller of a direct call,
\* the framework for a route handler) receives the pending return value or
\* failure.
Exit(f) ==
    IF f.request = <<>>
    THEN [f EXCEPT !.pc = "done", !.out = f.pending, !.duration = 0]
    ELSE CallNext(f, f.pending)

-----------------------------------------------------------------------------
(* track_endpoint_metrics(endpoint_name): the HTTP endpoint decorator of   *)
(* both services; they differ in the hardcoded method label only.          *)

\* Variant of EndpointMethod: both services hardcode 'POST'.
EndpointMethodPost(svc) == "POST"

\* method='GET' in the product-service, method='POST' in the user-service
EndpointMethod(svc) == IF svc = "product" THEN "GET" ELSE "POST"

EndpointNames(svc) == IF svc = "product" THEN {"get_product"} ELSE {"login"}

EndpointResults == {"dict", "Response404"}

EndpointFailures == {"ValueError", "CancelledError"}

\* Variant of StatusOnReturn: the status of the response is not read.
StatusOnReturnIgnored(status_code, response) == status_code

\* if hasattr(response, 'status_code'): status_code = response.status_code
StatusOnReturn(status_code, response) ==
    IF HasStatusCode(response) THEN StatusCodeOf(response) ELSE status_code

\* Variant of StatusOnRaise: the status the framework will answer an
\* HTTPException with is recorded.
StatusOnRaiseAsAnswered(status_code, e) ==
    IF e = "HTTPException" THEN 404 ELSE IF IsException(e) THEN 500 ELSE status_code

\* except Exception as e: status_code = 500
StatusOnRaise(status_code, e) ==
    IF IsException(e) THEN 500 ELSE status_code

\* return response / return result
ReturnResult(result) == Returned(result)

\* Variant of Reraise: the failure is swallowed and None is returned.
ReraiseSwallowed(e) == Returned("None")

\* raise, and a failure that no except clause catches
Reraise(e) == Raised(e)

\* start_time = time.time(); status_code = 200; await func(*args, **kwargs)
EndpointStart(f, endpoint_name) ==
    [f EXCEPT !.pc = "await", !.wrapper = "endpoint",
              !.args = <<endpoint_name>>, !.status_code = 200]

\* response = await func(...); status_code from the response; return response
EndpointReturn(f, response) ==
    [f EXCEPT !.pc = "finally",
              !.func = Returned(response),
              !.status_code = StatusOnReturn(@, response),
              !.pending = ReturnResult(response)]

\* Variant of track_endpoint_metrics_start: the request is counted before
\* the operation is awaited.
track_endpoint_metrics_start_counting(c, endpoint_name) ==
    /\ call[c].pc = "idle"
    /\ LET lv == <<EndpointMethod(service), endpoint_name, "200">>
       IN /\ registry' = Inc(service, registry, "http_requests_total", lv)
          /\ Log(c, Event("inc", "http_requests_total", lv, 1))
    /\ call' = [call EXCEPT ![c] = EndpointStart(@, endpoint_name)]
    /\ UNCHANGED <<service, hist>>

\* A direct call of a decorated operation.
track_endpoint_metrics_start(c, endpoint_name) ==
    /\ call[c].pc = "idle"
    /\ call' = [call EXCEPT ![c] = EndpointStart(@, endpoint_name)]
    /\ UNCHANGED <<service, registry, trace, hist>>

\* The wrapped operation returns response.
track_endpoint_metrics_return(c, response) ==
    /\ call[c].pc = "await" /\ call[c].wrapper = "endpoint"
    /\ call[c].request = <<>>
    /\ call' = [call EXCEPT ![c] = EndpointReturn(@, response)]
    /\ UNCHANGED <<service, registry, trace, hist>>

\* Variant of track_endpoint_metrics_raise: the metric updates are not in a
\* finally block, so a failure leaves the frame without them.
track_endpoint_metrics_raise_unrecorded(c, e) ==
    /\ call[c].pc = "await" /\ call[c].wrapper = "endpoint"
    /\ call[c].request = <<>>
    /\ call' = [call EXCEPT ![c] = Exit([@ EXCEPT !.func = Raised(e),
                    !.status_code = StatusOnRaise(@, e), !.pending = Reraise(e)])]
    /\ UNCHANGED <<service, registry, trace, hist>>

\* The wrapped operation raises e.
track_endpoint_metrics_raise(c, e) ==
    /\ call[c].pc = "await" /\ call[c].wrapper = "endpoint"
    /\ call[c].request = <<>>
    /\ call' = [call EXCEPT ![c] = [@ EXCEPT !.pc = "finally",
                    !.func = Raised(e),
                    !.status_code = StatusOnRaise(@, e),
                    !.pending = Reraise(e)]]
    /\ UNCHANGED <<service, registry, trace, hist>>

\* The label values of the request count and of the duration histogram.
EndpointCountLabels(svc, endpoint_name, status_code) ==
    <<EndpointMethod(svc), endpoint_name, StatusLabel(status_code)>>

\* Variant of EndpointDurationLabels: the duration is not labelled with the
\* endpoint_name of the decorator.
EndpointDurationLabelsUnnamed(svc, endpoint_name) ==
    <<EndpointMethod(svc), "unknown">>

EndpointDurationLabels(svc, endpoint_name) ==
    <<EndpointMethod(svc), endpoint_name>>

\* finally: duration = time.time() - start_time; http_requests_total...inc()
track_endpoint_metrics_inc(c, duration) ==
    /\ call[c].pc = "finally" /\ call[c].wrapper = "endpoint"
    /\ LET f == call[c]
           lv == EndpointCountLabels(service, f.args[1], f.status_code)
       IN /\ registry' = Inc(service, registry, "http_requests_total", lv)
          /\ Log(c, Event("inc", "http_requests_total", lv, 1))
    /\ call' = [call EXCEPT ![c] = [@ EXCEPT !.pc = "observe", !.duration = duration]]
    /\ UNCHANGED <<service, hist>>

\* http_request_duration_seconds.labels(...).observe(duration); the finally
\* block is over and the frame ends.
track_endpoint_metrics_observe(c) ==
    /\ call[c].pc = "observe" /\ call[c].wrapper = "endpoint"
    /\ LET f == call[c]
           lv == EndpointDurationLabels(service, f.args[1])
       IN /\ registry' = Observe(service, registry, "http_request_duration_seconds", lv, f.duration)
          /\ Log(c, Event("observe", "http_request_duration_seconds", lv, f.duration))
    /\ call' = [call EXCEPT ![c] = Exit(@)]
    /\ UNCHANGED <<service, hist>>

-----------------------------------------------------------------------------
(* track_database_query(operation, table) of the product-service and       *)
(* track_auth_operation(operation) of the user-service: one duration       *)
(* observation in a finally block, no except clause.                       *)

TimedResults == {"row", "None"}

TimedFailures == {"ValueError", "CancelledError"}

\* start_time = time.time(); await func(*args, **kwargs)
track_database_query_start(c, operation, table) ==
    /\ call[c].pc = "idle" /\ service = "product"
    /\ call' = [call EXCEPT ![c] = [@ EXCEPT !.pc = "await", !.wrapper = "database",
                    !.args = <<operation, table>>]]
    /\ UNCHANGED <<service, registry, trace, hist>>

track_auth_operation_start(c, operation) ==
    /\ call[c].pc = "idle" /\ service = "user"
    /\ call' = [call EXCEPT ![c] = [@ EXCEPT !.pc = "await", !.wrapper = "auth",
                    !.args = <<operation>>]]
    /\ UNCHANGED <<service, registry, trace, hist>>

\* result = await func(...); return result
timed_return(c, result) ==
    /\ call[c].pc = "await" /\ call[c].wrapper \in {"database", "auth"}
    /\ call' = [call EXCEPT ![c] = [@ EXCEPT !.pc = "finally",
                    !.func = Returned(result), !.pending = ReturnResult(result)]]
    /\ UNCHANGED <<service, registry, trace, hist>>

\* Variant of timed_raise: the observation is not in a finally block, so a
\* failure leaves the frame without it.
timed_raise_unrecorded(c, e) ==
    /\ call[c].pc = "await" /\ call[c].wrapper \in {"database", "auth"}
    /\ call' = [call EXCEPT ![c] = Exit([@ EXCEPT !.func = Raised(e),
                    !.pending = Reraise(e)])]
    /\ UNCHANGED <<service, registry, trace, hist>>

\* await func(...) raises e: no except clause, the finally block runs.
timed_raise(c, e) ==
    /\ call[c].pc = "await" /\ call[c].wrapper \in {"database", "auth"}
    /\ call' = [call EXCEPT ![c] = [@ EXCEPT !.pc = "finally",
                    !.func = Raised(e), !.pending = Reraise(e)]]
    /\ UNCHANGED <<service, registry, trace, hist>>

TimedHistogram(wrapper) ==
    IF wrapper = "database" THEN "database_query_duration_seconds"
    ELSE "auth_operation_duration_seconds"

\* finally: duration = time.time() - start_time;
\* <histogram>.labels(...).observe(duration); the frame ends.
timed_observe(c, duration) ==
    /\ call[c].pc = "finally" /\ call[c].wrapper \in {"database", "auth"}
    /\ LET f == call[c]
           name == TimedHistogram(f.wrapper)
       IN /\ registry' = Observe(service, registry, name, f.args, duration)
          /\ Log(c, Event("observe", name, f.args, duration))
    /\ call' = [call EXCEPT ![c] = Exit(@)]
    /\ UNCHANGED <<service, hist>>

-----------------------------------------------------------------------------
(* track_cache_operation(operation, key_type) of the product-service.      *)

CacheOperations == {"get", "set"}

CacheResults == {"None", "''", "'v'"}

CacheFailures == {"ValueError", "CancelledError"}

\* Variant of CacheClass: `if result:` instead of `if result is not None:`.
CacheClassTruthy(operation, result) ==
    IF operation = "get"
    THEN IF result \notin {"None", "''"}
         THEN "redis_cache_hits_total" ELSE "redis_cache_misses_total"
    ELSE "none"

\* if operation == 'get': hits if result is not None else misses
CacheClass(operation, result) ==
    IF operation = "get"
    THEN IF result # "None" THEN "redis_cache_hits_total" ELSE "redis_cache_misses_total"
    ELSE "none"

track_cache_operation_start(c, operation, key_type) ==
    /\ call[c].pc = "idle" /\ service = "product"
    /\ call' = [call EXCEPT ![c] = [@ EXCEPT !.pc = "await", !.wrapper = "cache",
                    !.args = <<operation, key_type>>]]
    /\ UNCHANGED <<service, registry, trace, hist>>

\* result = await func(...)
track_cache_operation_return(c, result) ==
    /\ call[c].pc = "await" /\ call[c].wrapper = "cache"
    /\ call' = [call EXCEPT ![c] = [@ EXCEPT
                    !.pc = IF CacheClass(call[c].args[1], result) = "none"
                           THEN "finally" ELSE "hitmiss",
                    !.func = Returned(result), !.pending = ReturnResult(result)]]
    /\ UNCHANGED <<service, registry, trace, hist>>

\* redis_cache_hits_total / redis_cache_misses_total .labels(cache_key_type=key_type).inc()
track_cache_operation_hitmiss(c) ==
    /\ call[c].pc = "hitmiss" /\ call[c].wrapper = "cache"
    /\ LET f == call[c]
           name == CacheClass(f.args[1], f.func[2])
       IN /\ registry' = Inc(service, registry, name, <<f.args[2]>>)
          /\ Log(c, Event("inc", name, <<f.args[2]>>, 1))
    /\ call' = [call EXCEPT ![c] = [@ EXCEPT !.pc = "finally"]]
    /\ UNCHANGED <<service, hist>>

\* Variant of track_cache_operation_raise: a failed 'get' goes through the
\* hit/miss classification.
track_cache_operation_raise_classified(c, e) ==
    /\ call[c].pc = "await" /\ call[c].wrapper = "cache"
    /\ call' = [call EXCEPT ![c] = [@ EXCEPT
                    !.pc = IF call[c].args[1] = "get" THEN "hitmiss" ELSE "finally",
                    !.func = Raised(e), !.pending = Reraise(e)]]
    /\ UNCHANGED <<service, registry, trace, hist>>

\* await func(...) raises e: the rest of the try block is skipped, no except
\* clause, the finally block runs.
track_cache_operation_raise(c, e) ==
    /\ call[c].pc = "await" /\ call[c].wrapper = "cache"
    /\ call' = [call EXCEPT ![c] = [@ EXCEPT !.pc = "finally",
                    !.func = Raised(e), !.pending = Reraise(e)]]
    /\ UNCHANGED <<service, registry, trace, hist>>

\* Variant of track_cache_operation_inc: the operation count is not in the
\* finally block, so a failed operation is not counted.
track_cache_operation_inc_on_success(c, duration) ==
    /\ call[c].pc = "finally" /\ call[c].wrapper = "cache"
    /\ LET f == call[c]
       IN IF f.func[1] = "return"
          THEN /\ registry' = Inc(service, registry, "redis_operations_total", <<f.args[1]>>)
               /\ Log(c, Event("inc", "redis_operations_total", <<f.args[1]>>, 1))
          ELSE UNCHANGED <<registry, trace>>
    /\ call' = [call EXCEPT ![c] = [@ EXCEPT !.pc = "observe", !.duration = duration]]
    /\ UNCHANGED <<service, hist>>

\* finally: duration = ...; redis_operations_total.labels(operation=operation).inc()
track_cache_operation_inc(c, duration) ==
    /\ call[c].pc = "finally" /\ call[c].wrapper = "cache"
    /\ LET f == call[c]
       IN /\ registry' = Inc(service, registry, "redis_operations_total", <<f.args[1]>>)
          /\ Log(c, Event("inc", "redis_operations_total", <<f.args[1]>>, 1))
    /\ call' = [call EXCEPT ![c] = [@ EXCEPT !.pc = "observe", !.duration = duration]]
    /\ UNCHANGED <<service, hist>>

\* redis_operation_duration_seconds.labels(operation=operation).observe(duration);
\* the frame ends.
track_cache_operation_observe(c) ==
    /\ call[c].pc = "observe" /\ call[c].wrapper = "cache"
    /\ LET f == call[c]
       IN /\ registry' = Observe(service, registry, "redis_operation_duration_seconds",
                                 <<f.args[1]>>, f.duration)
          /\ Log(c, Event("observe", "redis_operation_duration_seconds", <<f.args[1]>>, f.duration))
    /\ call' = [call EXCEPT ![c] = Exit(@)]
    /\ UNCHANGED <<service, hist>>

-----------------------------------------------------------------------------
(* Business-event recorders: one increment each.                           *)

\* The call of a recorder that increments metric name at labelvalues.
Recorder(c, wrapper, name, labelvalues) ==
    /\ call[c].pc = "idle"
    /\ registry' = Inc(service, registry, name, labelvalues)
    /\ Log(c, Event("inc", name, labelvalues, 1))
    /\ call' = [call EXCEPT ![c] = [@ EXCEPT !.pc = "done", !.wrapper = wrapper,
                    !.args = labelvalues, !.out = Returned("None")]]
    /\ UNCHANGED <<service, hist>>

track_product_view(c, product_id, product_name, category) ==
    /\ service = "product"
    /\ Recorder(c, "track_product_view", "product_views_total",
                <<product_id, product_name, category>>)

\* status = 'success' if success else 'failed'
LoginStatus(success) == IF success THEN "success" ELSE "failed"

track_login_attempt(c, success, method) ==
    /\ service = "user"
    /\ Recorder(c, "track_login_attempt", "user_login_attempts_total",
                <<LoginStatus(success), method>>)

-----------------------------------------------------------------------------
(* SpecWrap: NumCalls concurrent calls of decorated operations and of       *)
(* recorders in one service; a wrapped operation is any operation (it may   *)
(* return, fail, or never complete).                                        *)

\* Calls are taken in order of their number (their numbers are only names).
NextCall(c) == \A d \in Calls : d < c => call[d].pc # "idle"

NextWrap ==
    \E c \in Calls :
        \/ /\ NextCall(c)
           /\ \/ \E n \in EndpointNames(service) : track_endpoint_metrics_start(c, n)
              \/ track_database_query_start(c, "select", "products")
              \/ track_auth_operation_start(c, "login")
              \/ \E op \in CacheOperations : track_cache_operation_start(c, op, "product")
              \/ track_product_view(c, "p1", "Sample Product", "Electronics")
              \/ \E success \in BOOLEAN : track_login_attempt(c, success, "email")
        \/ \E r \in EndpointResults : track_endpoint_metrics_return(c, r)
        \/ \E e \in EndpointFailures : track_endpoint_metrics_raise(c, e)
        \/ \E d \in Durations : track_endpoint_metrics_inc(c, d)
        \/ track_endpoint_metrics_observe(c)
        \/ \E r \in TimedResults : timed_return(c, r)
        \/ \E e \in TimedFailures : timed_raise(c, e)
        \/ \E d \in Durations : timed_observe(c, d)
        \/ \E r \in CacheResults : track_cache_operation_return(c, r)
        \/ track_cache_operation_hitmiss(c)
        \/ \E e \in CacheFailures : track_cache_operation_raise(c, e)
        \/ \E d \in Durations : track_cache_operation_inc(c, d)
        \/ track_cache_operation_observe(c)

SpecWrap == Init /\ [][NextWrap]_vars

-----------------------------------------------------------------------------
(* get_metrics(): the exposition of the registry, a sequence of lines.     *)

\* A bucket bound (milliseconds) as the le label shows it (seconds).
BoundLabel(b) ==
    CASE b = 1 -> "0.001" [] b = 5 -> "0.005" [] b = 10 -> "0.01"
      [] b = 50 -> "0.05" [] b = 100 -> "0.1" [] b = 500 -> "0.5"
      [] b = 1000 -> "1.0" [] b = 2000 -> "2.0" [] b = 5000 -> "5.0"
      [] b = 10000 -> "10.0" [] OTHER -> "?"

Line(name, suffix, labelvalues, le, value) ==
    [name |-> name, suffix |-> suffix, labels |-> labelvalues, le |-> le, value |-> value]

RECURSIVE BucketLines(_, _, _, _)
BucketLines(name, inst, bounds, i) ==
    IF i > Len(inst.bucket) THEN <<>>
    ELSE <<Line(name, "_bucket", inst.labels,
                IF i > Len(bounds) THEN "+Inf" ELSE BoundLabel(bounds[i]),
                inst.bucket[i])>>
         \o BucketLines(name, inst, bounds, i + 1)

\* The data lines of one instance.
InstanceLines(m, inst) ==
    IF m.kind = "histogram"
    THEN BucketLines(m.name, inst, m.buckets, 1)
         \o <<Line(m.name, "_sum", inst.labels, "", inst.sum),
              Line(m.name, "_count", inst.labels, "", inst.count)>>
    ELSE <<Line(m.name, "", inst.labels, "", inst.value)>>

RECURSIVE ChildrenLines(_, _)
ChildrenLines(m, children) ==
    IF children = <<>> THEN <<>>
    ELSE InstanceLines(m, Head(children)) \o ChildrenLines(m, Tail(children))

\* generate_latest(): for each metric of the catalog, in registration order,
\* its TYPE line and the data lines of its instances, in creation order.
RECURSIVE Render(_, _)
Render(cat, reg) ==
    IF cat = <<>> THEN <<>>
    ELSE <<Line(Head(cat).name, "# TYPE", <<>>, "", 0)>>
         \o ChildrenLines(Head(cat), reg[Head(cat).name])
         \o Render(Tail(cat), reg)

\* return generate_latest()
get_metrics(svc, reg) == Render(Catalog(svc), reg)

\* The number of metric updates made so far.
RECURSIVE Updates(_, _)
Updates(tr, n) == IF n = 0 THEN 0 ELSE Len(tr[n]) + Updates(tr, n - 1)

-----------------------------------------------------------------------------
(* The product-service application: every request passes the track_requests *)
(* middleware, which hands it to the route handler through call_next.       *)

ScrapeRequest == <<"GET", "/metrics">>

ProductRequest == <<"GET", "/products/p1">>

Requests == {ScrapeRequest, ProductRequest}

\* start_time = time.time(); response = await call_next(request)
track_requests_start(c, request) ==
    /\ call[c].pc = "idle"
    /\ call' = [call EXCEPT ![c] = [@ EXCEPT !.pc = "call_next", !.request = request]]
    /\ UNCHANGED <<service, registry, trace, hist>>

\* Variant of metrics: the handler counts the scrape before it renders.
metrics_counting(c) ==
    /\ call[c].pc = "call_next" /\ call[c].request = ScrapeRequest
    /\ registry' = Inc(service, registry, "product_search_queries_total", <<"scrape">>)
    /\ call' = [call EXCEPT ![c] = [@ EXCEPT !.pc = "mw_inc", !.wrapper = "metrics",
                    !.at = Updates(trace, NumCalls),
                    !.response = [status_code |-> 200,
                                  content |-> get_metrics(service, registry')]]]
    /\ UNCHANGED <<service, trace, hist>>

\* @app.get("/metrics"): return Response(content=get_metrics(), media_type="text/plain")
metrics(c) ==
    /\ call[c].pc = "call_next" /\ call[c].request = ScrapeRequest
    /\ call' = [call EXCEPT ![c] = [@ EXCEPT !.pc = "mw_inc", !.wrapper = "metrics",
                    !.at = Updates(trace, NumCalls),
                    !.response = [status_code |-> 200,
                                  content |-> get_metrics(service, registry)]]]
    /\ UNCHANGED <<service, registry, trace, hist>>

\* @app.get("/products/{product_id}") @track_endpoint_metrics("get_product"):
\* the request reaches the decorated handler.
get_product_start(c) ==
    /\ call[c].pc = "call_next" /\ call[c].request = ProductRequest
    /\ call' = [call EXCEPT ![c] = EndpointStart(@, "get_product")]
    /\ UNCHANGED <<service, registry, trace, hist>>

\* The body of get_product: track_product_view(...); return product
get_product(c, product_id) ==
    /\ call[c].pc = "await" /\ call[c].wrapper = "endpoint"
    /\ call[c].request = ProductRequest
    /\ LET lv == <<product_id, "Sample Product", "Electronics">>
       IN /\ registry' = Inc(service, registry, "product_views_total", lv)
          /\ Log(c, Event("inc", "product_views_total", lv, 1))
    /\ call' = [call EXCEPT ![c] = EndpointReturn(@, "dict")]
    /\ UNCHANGED <<service, hist>>

\* The label values the middleware uses.
RequestCountLabels(request, status_code) ==
    <<request[1], request[2], StatusLabel(status_code)>>

RequestDurationLabels(request) == <<request[1], request[2]>>

\* duration = time.time() - start_time; http_requests_total.labels(...).inc()
track_requests_inc(c, duration) ==
    /\ call[c].pc = "mw_inc"
    /\ LET f == call[c]
           lv == RequestCountLabels(f.request, f.response.status_code)
       IN /\ registry' = Inc(service, registry, "http_requests_total", lv)
          /\ Log(c, Event("inc", "http_requests_total", lv, 1))
    /\ call' = [call EXCEPT ![c] = [@ EXCEPT !.pc = "mw_observe", !.duration = duration]]
    /\ UNCHANGED <<service, hist>>

\* http_request_duration_seconds.labels(...).observe(duration); return response
track_requests_observe(c) ==
    /\ call[c].pc = "mw_observe"
    /\ LET f == call[c]
           lv == RequestDurationLabels(f.request)
       IN /\ registry' = Observe(service, registry, "http_request_duration_seconds", lv, f.duration)
          /\ Log(c, Event("observe", "http_request_duration_seconds", lv, f.duration))
    /\ call' = [call EXCEPT ![c] = [@ EXCEPT !.pc = "done", !.duration = 0,
                    !.out = Returned("response")]]
    /\ UNCHANGED <<service, hist>>

InitApp == Init /\ service = "product"

Next ==
    \E c \in Calls :
        \/ NextCall(c) /\ \E r \in Requests : track_requests_start(c, r)
        \/ metrics(c)
        \/ get_product_start(c)
        \/ get_product(c, "p1")
        \/ \E d \in Durations : track_endpoint_metrics_inc(c, d)
        \/ track_endpoint_metrics_observe(c)
        \/ \E d \in Durations : track_requests_inc(c, d)
        \/ track_requests_observe(c)

Spec == InitApp /\ [][Next]_vars

-----------------------------------------------------------------------------
(* SpecHttp: the HTTP metrics of a service: direct calls of decorated       *)
(* endpoint operations (any operation: it may return, fail or never         *)
(* complete) and, in the product-service, requests through the middleware   *)
(* to the GET and POST routes.                                              *)

SearchRequest == <<"POST", "/products/search">>

\* Values of search.category.
Categories == {"None", "'Electronics'"}

\* bool(value)
Truthy(v) == v \notin {"None", "''"}

\* @app.post("/products/search") @track_endpoint_metrics("search_products"):
\* the request reaches the decorated handler.
search_products_start(c) ==
    /\ call[c].pc = "call_next" /\ call[c].request = SearchRequest
    /\ call' = [call EXCEPT ![c] = EndpointStart(@, "search_products")]
    /\ UNCHANGED <<service, registry, trace, hist>>

\* The body of search_products: track_product_search("category") if
\* search.category else track_product_search("full_text"); return {...}
search_products(c, category) ==
    /\ call[c].pc = "await" /\ call[c].wrapper = "endpoint"
    /\ call[c].request = SearchRequest
    /\ LET lv == <<IF Truthy(category) THEN "category" ELSE "full_text">>
       IN /\ registry' = Inc(service, registry, "product_search_queries_total", lv)
          /\ Log(c, Event("inc", "product_search_queries_total", lv, 1))
    /\ call' = [call EXCEPT ![c] = EndpointReturn(@, "dict")]
    /\ UNCHANGED <<service, hist>>

NextHttp ==
    \E c \in Calls :
        \/ /\ NextCall(c)
           /\ \/ \E n \in EndpointNames(service) : track_endpoint_metrics_start(c, n)
              \/ /\ service = "product"
                 /\ \E r \in Requests \cup {SearchRequest} : track_requests_start(c, r)
        \/ \E r \in EndpointResults : track_endpoint_metrics_return(c, r)
        \/ \E e \in EndpointFailures : track_endpoint_metrics_raise(c, e)
        \/ \E d \in Durations : track_endpoint_metrics_inc(c, d)
        \/ track_endpoint_metrics_observe(c)
        \/ metrics(c)
        \/ get_product_start(c)
        \/ get_product(c, "p1")
        \/ search_products_start(c)
        \/ \E category \in Categories : search_products(c, category)
        \/ \E d \in Durations : track_requests_inc(c, d)
        \/ track_requests_observe(c)

SpecHttp == Init /\ [][NextHttp]_vars

-----------------------------------------------------------------------------
(* SpecApp: the product-service request path with any handler behind the   *)
(* decorated routes: the handler may return a value or a Response, raise an *)
(* HTTPException (which the framework answers with its status), fail        *)
(* otherwise, be cancelled, or never complete.                              *)

HandlerFailures == {"HTTPException", "ValueError", "CancelledError"}

\* response = await func(*args, **kwargs) in the decorator of a route: the
\* handler returns response.
handler_return(c, response) ==
    /\ call[c].pc = "await" /\ call[c].wrapper = "endpoint"
    /\ call[c].request # <<>>
    /\ call' = [call EXCEPT ![c] = EndpointReturn(@, response)]
    /\ UNCHANGED <<service, registry, trace, hist>>

\* The handler raises e.
handler_raise(c, e) ==
    /\ call[c].pc = "await" /\ call[c].wrapper = "endpoint"
    /\ call[c].request # <<>>
    /\ call' = [call EXCEPT ![c] = [@ EXCEPT !.pc = "finally",
                    !.func = Raised(e),
                    !.status_code = StatusOnRaise(@, e),
                    !.pending = Reraise(e)]]
    /\ UNCHANGED <<service, registry, trace, hist>>

NextApp ==
    \E c \in Calls :
        \/ NextCall(c) /\ \E r \in Requests \cup {SearchRequest} : track_requests_start(c, r)
        \/ metrics(c)
        \/ get_product_start(c)
        \/ search_products_start(c)
        \/ \E r \in EndpointResults : handler_return(c, r)
        \/ \E e \in HandlerFailures : handler_raise(c, e)
        \/ \E d \in Durations : track_endpoint_metrics_inc(c, d)
        \/ track_endpoint_metrics_observe(c)
        \/ \E d \in Durations : track_requests_inc(c, d)
        \/ track_requests_observe(c)

SpecApp == InitApp /\ [][NextApp]_vars

-----------------------------------------------------------------------------
(* SpecHist: one histogram instance, observed value after value.           *)

\* Number of observations made on the histogram.
MaxObserve == 3

\* The bucket bounds of the source's histograms, and the bounds 5, 10, 20.
HistBounds == {<<5, 10, 20>>, http_buckets, database_buckets, redis_buckets, auth_buckets}

HistValues == {2, 7, 15, 100, 20000}

InitHist ==
    /\ service = "product"
    /\ registry = ModuleLoad(Catalog(service))
    /\ call = [c \in Calls |-> IdleCall]
    /\ trace = [c \in Calls |-> <<>>]
    /\ \E b \in HistBounds :
          hist = [bounds |-> b, inst |-> NewInstance(<<>>, "histogram", b), observed |-> <<>>]

\* histogram.observe(v)
observe(v) ==
    /\ Len(hist.observed) < MaxObserve
    /\ hist' = [hist EXCEPT !.inst = HistogramObserve(@, hist.bounds, v),
                            !.observed = Append(@, v)]
    /\ UNCHANGED <<service, registry, call, trace>>

NextHist == \E v \in HistValues : observe(v)

SpecHist == InitHist /\ [][NextHist]_vars

-----------------------------------------------------------------------------
(* SpecRecord: one caller that makes calls one after another: the           *)
(* synchronous functions of the metrics modules (recorders, gauge setters,  *)
(* get_metrics), direct increments of a counter by an amount, and decorated *)
(* operations.  A completed call leaves its frame, and the next call takes  *)
(* it; trace[c] keeps the updates of all the calls made through frame c.    *)

\* Number of metric updates after which the caller makes no further call.
MaxRecord == 4

Amounts == {-1, 2}

Quantities == {0, 5}

\* The caller makes its next call: no call is in progress.
Sequential(c) ==
    /\ NextCall(c)
    /\ \A d \in Calls : call[d].pc = "idle"
    /\ Updates(trace, NumCalls) < MaxRecord

\* The completed call c has returned to the caller: its frame is gone.
Return(c) ==
    /\ call[c].pc = "done"
    /\ call' = [call EXCEPT ![c] = IdleCall]
    /\ UNCHANGED <<service, registry, trace, hist>>

track_session_creation(c) ==
    /\ service = "user"
    /\ Recorder(c, "track_session_creation", "user_sessions_created_total", <<>>)

\* The call of a setter that sets the gauge name at labelvalues to value.
Setter(c, wrapper, name, labelvalues, value) ==
    /\ call[c].pc = "idle"
    /\ registry' = Set(service, registry, name, labelvalues, value)
    /\ Log(c, Event("set", name, labelvalues, value))
    /\ call' = [call EXCEPT ![c] = [@ EXCEPT !.pc = "done", !.wrapper = wrapper,
                    !.args = labelvalues, !.out = Returned("None")]]
    /\ UNCHANGED <<service, hist>>

update_product_inventory(c, product_id, product_name, quantity) ==
    /\ service = "product"
    /\ Setter(c, "update_product_inventory", "product_inventory_level",
              <<product_id, product_name>>, quantity)

update_active_sessions(c, count) ==
    /\ service = "user"
    /\ Setter(c, "update_active_sessions", "user_active_sessions", <<>>, count)

\* database_connections_active.set(active); ..._idle.set(idle); ..._max.set(max_conn)
update_db_connection_stats(c, active, idle, max_conn) ==
    /\ service = "product"
    /\ call[c].pc = "idle"
    /\ registry' = Set(service,
                       Set(service,
                           Set(service, registry, "database_connections_active", <<>>, active),
                           "database_connections_idle", <<>>, idle),
                       "database_connections_max", <<>>, max_conn)
    /\ trace' = [trace EXCEPT ![c] = @ \o
                    << Event("set", "database_connections_active", <<>>, active),
                       Event("set", "database_connections_idle", <<>>, idle),
                       Event("set", "database_connections_max", <<>>, max_conn) >>]
    /\ call' = [call EXCEPT ![c] = [@ EXCEPT !.pc = "done",
                    !.wrapper = "update_db_connection_stats", !.out = Returned("None")]]
    /\ UNCHANGED <<service, hist>>

\* A direct call of get_metrics().
call_get_metrics(c) ==
    /\ call[c].pc = "idle"
    /\ call' = [call EXCEPT ![c] = [@ EXCEPT !.pc = "done", !.wrapper = "get_metrics",
                    !.out = Returned("text"),
                    !.response = [status_code |-> 0,
                                  content |-> get_metrics(service, registry)]]]
    /\ UNCHANGED <<service, registry, trace, hist>>

\* The counter instance that the direct increments target: one that a
\* recorder of the service increments too.
DirectTarget(svc) ==
    IF svc = "product"
    THEN <<"product_views_total", <<"p1", "Sample Product", "Electronics">>>>
    ELSE <<"user_sessions_created_total", <<>>>>

\* counter.labels(...).inc(amount): the increment is made, or ValueError is
\* raised (after labels(...) has got or created the instance).
counter_inc(c, name, labelvalues, amount) ==
    /\ call[c].pc = "idle"
    /\ registry' = IncBy(service, registry, name, labelvalues, amount)
    /\ trace' = [trace EXCEPT ![c] =
                    IF CounterIncFails(amount) THEN @
                    ELSE Append(@, Event("inc", name, labelvalues, amount))]
    /\ call' = [call EXCEPT ![c] = [@ EXCEPT !.pc = "done", !.wrapper = "inc",
                    !.args = <<name, labelvalues, amount>>,
                    !.out = IF CounterIncFails(amount)
                            THEN Raised("ValueError") ELSE Returned("None")]]
    /\ UNCHANGED <<service, hist>>

NextRecord ==
    \E c \in Calls :
        \/ /\ Sequential(c)
           /\ \/ \E n \in EndpointNames(service) : track_endpoint_metrics_start(c, n)
              \/ track_database_query_start(c, "select", "products")
              \/ track_auth_operation_start(c, "login")
              \/ track_cache_operation_start(c, "get", "product")
              \/ track_product_view(c, "p1", "Sample Product", "Electronics")
              \/ \E success \in BOOLEAN : track_login_attempt(c, success, "email")
              \/ track_session_creation(c)
              \/ \E q \in Quantities : update_product_inventory(c, "p1", "Sample Product", q)
              \/ update_active_sessions(c, 5)
              \/ update_db_connection_stats(c, 3, 2, 10)
              \/ call_get_metrics(c)
              \/ \E a \in Amounts :
                    counter_inc(c, DirectTarget(service)[1], DirectTarget(service)[2], a)
        \/ track_endpoint_metrics_return(c, "dict")
        \/ track_endpoint_metrics_raise(c, "ValueError")
        \/ track_endpoint_metrics_inc(c, 20)
        \/ track_endpoint_metrics_observe(c)
        \/ timed_return(c, "row")
        \/ timed_raise(c, "ValueError")
        \/ timed_observe(c, 20)
        \/ track_cache_operation_return(c, "'v'")
        \/ track_cache_operation_hitmiss(c)
        \/ track_cache_operation_raise(c, "ValueError")
        \/ track_cache_operation_inc(c, 20)
        \/ track_cache_operation_observe(c)
        \/ Return(c)

SpecRecord == Init /\ [][NextRecord]_vars

-----------------------------------------------------------------------------
(* Properties.                                                              *)

Wrapped(c) == call[c].wrapper \in {"endpoint", "database", "auth", "cache"}

Completed(c) == call[c].pc = "done"

\* The positions in the trace of call c of its updates op of metric name.
Events(c, op, name) ==
    {i \in 1..Len(trace[c]) : trace[c][i].op = op /\ trace[c][i].name = name}

\* The duration histogram of a decorator, and the counter its finally block
\* increments ("none" for the data-store and auth decorators).
DurationHistogram(wrapper) ==
    CASE wrapper = "endpoint" -> "http_request_duration_seconds"
      [] wrapper = "cache" -> "redis_operation_duration_seconds"
      [] OTHER -> TimedHistogram(wrapper)

FinallyCounter(wrapper) ==
    CASE wrapper = "endpoint" -> "http_requests_total"
      [] wrapper = "cache" -> "redis_operations_total"
      [] OTHER -> "none"

CounterNames == {m.name : m \in {x \in {Catalog(service)[i] : i \in 1..Len(Catalog(service))} :
                                     x.kind = "counter"}}

\* C1: every decorator is transparent: when the decorated call has completed,
\* its caller has received exactly what the wrapped operation did (the value
\* it returned, or the failure it raised), and the caller receives nothing
\* before that.
C1_Transparent ==
    \A c \in Calls : Wrapped(c) =>
        /\ Completed(c) => (call[c].func # NoOutcome /\ call[c].out = call[c].func)
        /\ ~Completed(c) => call[c].out = NoOutcome

C1_Witness ==
    \E c, d \in Calls :
        /\ c # d /\ Wrapped(c) /\ Wrapped(d) /\ Completed(c) /\ Completed(d)
        /\ call[c].wrapper = "endpoint" /\ call[d].wrapper # "endpoint"
        /\ call[c].func[1] = "raise" /\ call[c].out = call[c].func
        /\ call[d].func[1] = "return" /\ call[d].out = call[d].func

\* The status the result of a handler exposes, 200 when it exposes none.
ExposedStatus(v) == IF HasStatusCode(v) THEN StatusCodeOf(v) ELSE 200

\* The completed endpoint calls that observed the duration instance lv.
ObservedBy(lv) ==
    {c \in Calls : /\ call[c].wrapper = "endpoint" /\ Completed(c)
                   /\ EndpointDurationLabels(service, call[c].args[1]) = lv}

\* C2: an endpoint call that completes normally makes exactly two updates:
\* one increment by 1 of http_requests_total on the instance of (method,
\* endpoint, status exposed by the result or 200), then one observation of
\* http_request_duration_seconds{method, endpoint}; the duration instance
\* counts one observation per completed call.
C2_HttpSuccess ==
    \A c \in Calls :
        (Completed(c) /\ call[c].wrapper = "endpoint" /\ call[c].func[1] = "return") =>
            LET f == call[c]
                lv == <<EndpointMethod(service), f.args[1]>>
                d == registry["http_request_duration_seconds"]
            IN /\ Len(trace[c]) = 2
               /\ trace[c][1] = Event("inc", "http_requests_total",
                                     Append(lv, StatusLabel(ExposedStatus(f.func[2]))), 1)
               /\ trace[c][2].op = "observe"
               /\ trace[c][2].name = "http_request_duration_seconds"
               /\ trace[c][2].labels = lv
               /\ \A i \in 1..Len(d) :
                      d[i].labels = lv => d[i].count = Cardinality(ObservedBy(lv))

C2_Witness ==
    \E c \in Calls :
        /\ Completed(c) /\ call[c].wrapper = "endpoint"
        /\ call[c].func = Returned("Response404")
        /\ trace[c][1].labels[3] = "404"
        /\ \E i \in 1..Len(registry["http_requests_total"]) :
              /\ registry["http_requests_total"][i].labels[3] = "404"
              /\ registry["http_requests_total"][i].value = 1

\* C3: an endpoint call whose wrapped operation fails by raising makes
\* exactly one http_requests_total increment, with status 500, and exactly
\* one duration observation, and its caller receives the original failure.
C3_HttpFailure500 ==
    \A c \in Calls :
        (Completed(c) /\ call[c].wrapper = "endpoint" /\ call[c].func[1] = "raise") =>
            LET f == call[c]
                lv == <<EndpointMethod(service), f.args[1]>>
            IN /\ Len(trace[c]) = 2
               /\ trace[c][1] = Event("inc", "http_requests_total", Append(lv, "500"), 1)
               /\ trace[c][2].op = "observe"
               /\ trace[c][2].name = "http_request_duration_seconds"
               /\ f.out = f.func

\* C4: in every decorator the updates of the finally block (the duration
\* observation; the request or operation count) are made at most once per
\* call, and when the outcome (result, failure or cancellation) has reached
\* the caller they have been made exactly once.
C4_FinallyOnce ==
    \A c \in Calls : Wrapped(c) =>
        LET obs == Cardinality(Events(c, "observe", DurationHistogram(call[c].wrapper)))
            cnt == Cardinality(Events(c, "inc", FinallyCounter(call[c].wrapper)))
            counted == FinallyCounter(call[c].wrapper) # "none"
        IN /\ obs <= 1 /\ cnt <= 1
           /\ call[c].out # NoOutcome => (obs = 1 /\ (counted => cnt = 1))

C4_Witness ==
    \E c, d \in Calls :
        /\ c # d /\ Wrapped(c) /\ Wrapped(d)
        /\ call[c].out = Raised("CancelledError")
        /\ Cardinality(Events(c, "observe", DurationHistogram(call[c].wrapper))) = 1
        /\ call[d].out = Raised("ValueError")
        /\ Cardinality(Events(d, "observe", DurationHistogram(call[d].wrapper))) = 1

\* C5: a cache call that returns normally makes, in this order: for a 'get'
\* with a non-null result one increment of redis_cache_hits_total{key_type},
\* for a 'get' with a null result one increment of
\* redis_cache_misses_total{key_type}, for another operation neither; then
\* the operation count; then one duration observation of the operation.
C5_CacheHitMiss ==
    \A c \in Calls :
        (Completed(c) /\ call[c].wrapper = "cache" /\ call[c].func[1] = "return") =>
            LET operation == call[c].args[1]
                key_type == call[c].args[2]
                result == call[c].func[2]
                hits == Cardinality(Events(c, "inc", "redis_cache_hits_total"))
                misses == Cardinality(Events(c, "inc", "redis_cache_misses_total"))
                n == Len(trace[c])
            IN /\ (operation = "get" /\ result # "None") =>
                      /\ hits = 1 /\ misses = 0 /\ n = 3
                      /\ trace[c][1] = Event("inc", "redis_cache_hits_total", <<key_type>>, 1)
               /\ (operation = "get" /\ result = "None") =>
                      /\ hits = 0 /\ misses = 1 /\ n = 3
                      /\ trace[c][1] = Event("inc", "redis_cache_misses_total", <<key_type>>, 1)
               /\ operation # "get" => (hits = 0 /\ misses = 0 /\ n = 2)
               /\ trace[c][n].op = "observe"
               /\ trace[c][n].name = "redis_operation_duration_seconds"
               /\ trace[c][n].labels = <<operation>>

C5_Witness ==
    \E c, d \in Calls :
        /\ Completed(c) /\ call[c].wrapper = "cache" /\ call[c].args[1] = "get"
        /\ call[c].func = Returned("''")
        /\ registry["redis_cache_hits_total"][1].value = 1
        /\ Completed(d) /\ call[d].wrapper = "cache" /\ call[d].args[1] = "get"
        /\ call[d].func = Returned("None")
        /\ registry["redis_cache_misses_total"][1].value = 1

\* The counter instances <<name, label values>> that call c has incremented,
\* from where the call stands.
Incremented(c) ==
    LET f == call[c]
    IN CASE f.wrapper = "endpoint" ->
              IF f.pc \in {"observe", "done"}
              THEN {<<"http_requests_total",
                      EndpointCountLabels(service, f.args[1], f.status_code)>>}
              ELSE {}
         [] f.wrapper = "cache" ->
              (IF f.func[1] = "return" /\ f.pc \in {"finally", "observe", "done"}
                  /\ f.args[1] = "get"
               THEN {<<IF f.func[2] = "None" THEN "redis_cache_misses_total"
                       ELSE "redis_cache_hits_total", <<f.args[2]>>>>}
               ELSE {})
              \cup (IF f.pc \in {"observe", "done"}
                    THEN {<<"redis_operations_total", <<f.args[1]>>>>} ELSE {})
         [] f.wrapper = "track_product_view" -> {<<"product_views_total", f.args>>}
         [] f.wrapper = "track_login_attempt" -> {<<"user_login_attempts_total", f.args>>}
         [] OTHER -> {}

\* C6: no increment is lost: under every interleaving, the value of every
\* counter instance is the number of calls that have incremented it, and
\* every instance a call has incremented exists.
C6_NoLostIncrement ==
    \A name \in CounterNames :
        /\ \A i \in 1..Len(registry[name]) :
              registry[name][i].value =
                  Cardinality({c \in Calls : <<name, registry[name][i].labels>> \in Incremented(c)})
        /\ \A c \in Calls : \A k \in Incremented(c) :
              k[1] = name => Found(registry[name], k[2]) # {}

C6_Witness ==
    /\ \A c \in Calls : Completed(c) /\ call[c].wrapper = "endpoint"
    /\ \E i \in 1..Len(registry["http_requests_total"]) :
          registry["http_requests_total"][i].value = NumCalls

\* C7: at most one instance exists per metric and label-value combination,
\* and every update of a combination went to that one instance: it exists
\* and holds all the increments (all the observations) made on the
\* combination (value for a counter, count for a histogram; the other of
\* the two fields stays 0).
C7_OneInstancePerLabels ==
    \A name \in DOMAIN registry :
        /\ \A i, j \in 1..Len(registry[name]) :
              registry[name][i].labels = registry[name][j].labels => i = j
        /\ \A c \in Calls : \A n \in 1..Len(trace[c]) :
              trace[c][n].name = name =>
                  LET lv == trace[c][n].labels
                      made == UNION {{<<d, m>> : m \in {k \in 1..Len(trace[d]) :
                                          /\ trace[d][k].name = name
                                          /\ trace[d][k].labels = lv}} : d \in Calls}
                  IN \E i \in 1..Len(registry[name]) :
                        /\ registry[name][i].labels = lv
                        /\ registry[name][i].value + registry[name][i].count = Cardinality(made)

C7_Witness ==
    \E c, d \in Calls :
        /\ c # d /\ Completed(c) /\ Completed(d)
        /\ call[c].wrapper = "endpoint" /\ call[d].wrapper = "endpoint"
        /\ trace[c][1].name = trace[d][1].name
        /\ trace[c][1].labels = trace[d][1].labels
        /\ LET ch == registry[trace[c][1].name]
           IN Cardinality({i \in 1..Len(ch) : ch[i].labels = trace[c][1].labels}) = 1

\* The number of observed values that are <= bound.
RECURSIVE AtMost(_, _)
AtMost(observed, bound) ==
    IF observed = <<>> THEN 0
    ELSE (IF Head(observed) <= bound THEN 1 ELSE 0) + AtMost(Tail(observed), bound)

RECURSIVE Total(_)
Total(observed) == IF observed = <<>> THEN 0 ELSE Head(observed) + Total(Tail(observed))

\* C8: after any observations, the count of every bucket is the number of
\* observed values <= its bound (each observe(v) incremented exactly the
\* buckets whose bound is >= v), the +Inf bucket equals count, count is the
\* number of observations and sum their total, bucket counts are
\* non-decreasing in the bound; observing 2, 7, 15 against bounds 5, 10, 20
\* gives bucket counts 1, 2, 3, sum 24, count 3.
C8_HistogramObserve ==
    LET b == hist.bounds
        h == hist.inst
        n == Len(b)
    IN /\ Len(h.bucket) = n + 1
       /\ \A i \in 1..n : h.bucket[i] = AtMost(hist.observed, b[i])
       /\ h.bucket[n + 1] = h.count
       /\ h.count = Len(hist.observed)
       /\ h.sum = Total(hist.observed)
       /\ \A i \in 1..n : h.bucket[i] <= h.bucket[i + 1]
       /\ (b = <<5, 10, 20>> /\ hist.observed = <<2, 7, 15>>) =>
              (h.bucket = <<1, 2, 3, 3>> /\ h.sum = 24 /\ h.count = 3)

C8_Witness ==
    /\ hist.bounds = <<5, 10, 20>> /\ hist.observed = <<2, 7, 15>>
    /\ hist.inst.bucket = <<1, 2, 3, 3>> /\ hist.inst.sum = 24 /\ hist.inst.count = 3

\* The step in which call c renders the exposition.
RenderStep(c) ==
    /\ call[c].request = ScrapeRequest
    /\ call[c].pc = "call_next" /\ call'[c].pc = "mw_inc"

Rendered(c) == call[c].wrapper = "metrics"

\* The data lines of an exposition (its lines other than the TYPE lines).
DataLines(content) ==
    {content[i] : i \in {k \in 1..Len(content) : content[k].suffix # "# TYPE"}}

\* The instances <<name, label values>> that some update has targeted.
UpdatedKeys ==
    UNION {{<<trace[c][n].name, trace[c][n].labels>> : n \in 1..Len(trace[c])} : c \in Calls}

\* The single instances of the metrics constructed without label names.
UnlabelledKeys ==
    {<<m.name, <<>>>> : m \in {x \in {Catalog(service)[i] : i \in 1..Len(Catalog(service))} :
                                  x.labelnames = <<>>}}

\* Two renders with no update between them produce the same text.
RendersAgree ==
    \A c, d \in Calls :
        (Rendered(c) /\ Rendered(d) /\ call[c].at = call[d].at) =>
            call[c].response.content = call[d].response.content

C10_ScrapeReadOnly ==
    /\ \A c \in Calls : call[c].request = ScrapeRequest => trace[c] = <<>>
    /\ \A c, d \in Calls :
          (/\ c # d
           /\ \A e \in Calls \ {c, d} : call[e].pc = "idle"
           /\ call[c].request = ScrapeRequest /\ Completed(c)
           /\ Rendered(d) /\ call[d].at = Len(trace[c]) /\ trace[d] = <<>>)
          => call[d].response.content = call[c].response.content

\* The step in which call c makes a direct increment by an amount.
DirectIncStep(c) == call[c].pc = "idle" /\ call'[c].wrapper = "inc"

\* The value of instance i of counter name; 0 when it does not exist yet.
CounterValue(reg, name, i) == IF i <= Len(reg[name]) THEN reg[name][i].value ELSE 0

\* C11: every counter instance starts at 0 (the instances that exist at
\* module load have value 0; an instance created later counts from 0) and
\* no step (of a decorated call, a recorder, a setter, a render, a direct
\* increment) removes an instance or decreases its value; a step of a
\* decorator or recorder raises a value by exactly 1 or leaves it; a direct
\* increment by a negative amount raises ValueError and changes no value.
C11_CounterMonotone ==
    /\ \A name \in CounterNames : \A i \in 1..Len(registry[name]) :
          registry[name][i].value = 0
    /\ [][\A name \in CounterNames :
              /\ Len(registry[name]) <= Len(registry'[name])
              /\ \A i \in 1..Len(registry'[name]) :
                    LET old == CounterValue(registry, name, i)
                        new == registry'[name][i].value
                    IN /\ i <= Len(registry[name]) =>
                              registry'[name][i].labels = registry[name][i].labels
                       /\ new >= old
                       /\ (\A c \in Calls : ~DirectIncStep(c)) => new - old \in {0, 1}
                       /\ \A c \in Calls :
                              (DirectIncStep(c) /\ call'[c].args[3] < 0) =>
                                  /\ new = old
                                  /\ call'[c].out = Raised("ValueError")]_vars

C11_Witness ==
    \E c \in Calls :
        /\ call[c].wrapper = "inc" /\ call[c].args[3] = -1
        /\ call[c].out = Raised("ValueError")
        /\ \E i \in 1..Len(registry[call[c].args[1]]) :
              /\ registry[call[c].args[1]][i].labels = call[c].args[2]
              /\ registry[call[c].args[1]][i].value = 3
        /\ Len(trace[c]) = 2

\* The instances <<name, label values>> that the updates of this step target.
StepTargets ==
    UNION {{<<trace'[c][n].name, trace'[c][n].labels>> :
                n \in (Len(trace[c]) + 1)..Len(trace'[c])} : c \in Calls}
    \cup {<<call'[c].args[1], call'[c].args[2]>> : c \in {d \in Calls : DirectIncStep(d)}}

\* The number of updates of metric name at labelvalues in a trace.
UpdatesOf(tr, name, labelvalues) ==
    Cardinality({n \in 1..Len(tr) : tr[n].name = name /\ tr[n].labels = labelvalues})

\* Three login attempts counted with status success and one with status
\* failed, and no other.
ThreeAndOne(tr) ==
    /\ UpdatesOf(tr, "user_login_attempts_total", <<"success", "email">>) = 3
    /\ UpdatesOf(tr, "user_login_attempts_total", <<"failed", "email">>) = 1

\* C12: a step changes only the instances its updates target: every other
\* instance of every metric stays as it was, and none appears or disappears.
\* After three increments with status=success and one with status=failed,
\* user_login_attempts_total has exactly two instances, with values 3 and 1.
C12_FrameEffect ==
    /\ [][\A name \in DOMAIN registry :
              /\ Len(registry[name]) <= Len(registry'[name])
              /\ \A i \in 1..Len(registry'[name]) :
                    <<name, registry'[name][i].labels>> \notin StepTargets =>
                        /\ i <= Len(registry[name])
                        /\ registry'[name][i] = registry[name][i]]_vars
    /\ [](\A c \in Calls :
            (service = "user" /\ ThreeAndOne(trace[c])) =>
                LET ch == registry["user_login_attempts_total"]
                IN /\ Len(ch) = 2
                   /\ \E i, j \in 1..2 :
                         /\ ch[i].labels = <<"success", "email">> /\ ch[i].value = 3
                         /\ ch[j].labels = <<"failed", "email">> /\ ch[j].value = 1)

C12_Witness ==
    /\ service = "user"
    /\ ThreeAndOne(trace[1])
    /\ Len(registry["user_login_attempts_total"]) = 2
    /\ {registry["user_login_attempts_total"][i].value : i \in 1..2} = {3, 1}

Timed(c) == call[c].wrapper \in {"database", "auth"}

\* C13: a data-store or auth call that has completed (its operation returned
\* or failed) has made exactly one metric update: one observation on the
\* instance of its duration histogram labelled with the decorator's
\* arguments (operation and table, resp. operation); it has made none
\* before; the caller received what the operation did, a failure included;
\* and that instance counts one observation per completed call.
C13_TimedWrappers ==
    \A c \in Calls : Timed(c) =>
        LET f == call[c]
            name == TimedHistogram(f.wrapper)
            ch == registry[name]
            done == {d \in Calls : Timed(d) /\ Completed(d) /\ call[d].args = f.args}
        IN /\ f.args = (IF f.wrapper = "database" THEN <<"select", "products">> ELSE <<"login">>)
           /\ Completed(c) =>
                 /\ Len(trace[c]) = 1
                 /\ trace[c][1].op = "observe"
                 /\ trace[c][1].name = name
                 /\ trace[c][1].labels = f.args
                 /\ f.func # NoOutcome /\ f.out = f.func
                 /\ \E i \in 1..Len(ch) : ch[i].labels = f.args
           /\ ~Completed(c) => trace[c] = <<>>
           /\ \A i \in 1..Len(ch) :
                 ch[i].labels = f.args => ch[i].count = Cardinality(done)

C13_Witness ==
    \E c, d \in Calls :
        /\ c # d /\ Timed(c) /\ Timed(d) /\ Completed(c) /\ Completed(d)
        /\ call[c].out = Raised("ValueError")
        /\ call[d].out = Returned("row")
        /\ Len(trace[c]) = 1 /\ Len(trace[d]) = 1
        /\ registry[TimedHistogram(call[c].wrapper)][1].count = 2

\* The wrapped operation of call c is in flight.
InFlight(c) == Wrapped(c) /\ call[c].pc = "await"

\* C14: a decorated call has made no metric update while its wrapped
\* operation is in flight, nor at the moment the operation has just returned
\* or failed (the updates come in later steps of the decorator); so a call
\* whose operation never returns has recorded no duration observation and no
\* request count.
C14_NoUpdateInFlight ==
    \A c \in Calls : Wrapped(c) =>
        /\ InFlight(c) => trace[c] = <<>>
        /\ call[c].pc = "hitmiss" => trace[c] = <<>>
        /\ (call[c].pc = "finally" /\ call[c].wrapper # "cache") => trace[c] = <<>>
        /\ trace[c] # <<>> => call[c].func # NoOutcome

C14_Witness ==
    \E c, d \in Calls :
        /\ InFlight(c) /\ trace[c] = <<>>
        /\ call[c].wrapper = "endpoint"
        /\ Wrapped(d) /\ Completed(d) /\ Len(trace[d]) >= 2
        /\ c < d

\* The value is absent (None) or empty.
AbsentOrEmpty(result) == result \in {"None", "''"}

\* C15: a cache 'get' that has returned is counted as a hit if and only if
\* the returned value is present and non-empty; an absent or empty result
\* is counted as a miss.
C15_EmptyIsMiss ==
    \A c \in Calls :
        (/\ Completed(c) /\ call[c].wrapper = "cache"
         /\ call[c].args[1] = "get" /\ call[c].func[1] = "return") =>
            LET hits == Cardinality(Events(c, "inc", "redis_cache_hits_total"))
                misses == Cardinality(Events(c, "inc", "redis_cache_misses_total"))
            IN IF AbsentOrEmpty(call[c].func[2])
               THEN hits = 0 /\ misses = 1
               ELSE hits = 1 /\ misses = 0

\* The updates of call c that its endpoint decorator made: those of the HTTP
\* metrics whose endpoint label is the decorator's endpoint_name (the
\* middleware labels with the path of the request).
DecoratorEvents(c) ==
    {n \in 1..Len(trace[c]) :
        /\ trace[c][n].name \in {"http_requests_total", "http_request_duration_seconds"}
        /\ trace[c][n].labels[2] = call[c].args[1]}

\* C16: every update the endpoint decorator makes carries the method 'GET'
\* in the product-service and 'POST' in the user-service, whatever the
\* method of the request the call serves (none for a direct call); the
\* request count and the duration observation of one call carry the same
\* method and the same endpoint, the decorator's endpoint_name.
C16_HardcodedMethod ==
    \A c \in Calls : call[c].wrapper = "endpoint" =>
        /\ \A n \in DecoratorEvents(c) :
              trace[c][n].labels[1] = (IF service = "product" THEN "GET" ELSE "POST")
        /\ \A n, m \in DecoratorEvents(c) :
              /\ trace[c][n].labels[1] = trace[c][m].labels[1]
              /\ trace[c][n].labels[2] = trace[c][m].labels[2]
        /\ call[c].pc \in {"mw_inc", "mw_observe", "done"} =>
              \E n, m \in DecoratorEvents(c) :
                  /\ trace[c][n].name = "http_requests_total"
                  /\ trace[c][m].name = "http_request_duration_seconds"

C16_Witness ==
    \E c \in Calls :
        /\ call[c].wrapper = "endpoint" /\ Completed(c)
        /\ call[c].request = SearchRequest
        /\ Len(trace[c]) = 5
        /\ trace[c][2] = Event("inc", "http_requests_total", <<"GET", "search_products", "200">>, 1)
        /\ trace[c][3].labels = <<"GET", "search_products">>
        /\ trace[c][4] = Event("inc", "http_requests_total", <<"POST", "/products/search", "200">>, 1)

\* C17: an endpoint call whose wrapped operation ended with a failure that
\* `except Exception` does not catch (a cancellation) has, when it has
\* completed, made exactly one request count, with status 200, and one
\* duration observation, and its caller has received that failure.
C17_BaseExceptionCounted200 ==
    \A c \in Calls :
        (/\ call[c].wrapper = "endpoint" /\ call[c].func[1] = "raise"
         /\ call[c].func[2] = "CancelledError") =>
            LET f == call[c]
                lv == <<EndpointMethod(service), f.args[1]>>
            IN /\ f.status_code = 200
               /\ Completed(c) =>
                     /\ Len(trace[c]) = 2
                     /\ trace[c][1] = Event("inc", "http_requests_total", Append(lv, "200"), 1)
                     /\ trace[c][2].op = "observe"
                     /\ trace[c][2].name = "http_request_duration_seconds"
                     /\ trace[c][2].labels = lv
                     /\ f.out = Raised("CancelledError")
                     /\ \E i \in 1..Len(registry["http_requests_total"]) :
                           /\ registry["http_requests_total"][i].labels = Append(lv, "200")
                           /\ registry["http_requests_total"][i].value >= 1

C17_Witness ==
    \E c, d \in Calls :
        /\ c # d /\ Completed(c) /\ Completed(d)
        /\ call[c].wrapper = "endpoint" /\ call[d].wrapper = "endpoint"
        /\ call[c].out = Raised("CancelledError")
        /\ trace[c][1].labels[3] = "200"
        /\ call[d].out = Raised("ValueError")
        /\ trace[d][1].labels[3] = "500"

\* C18: a cache call whose wrapped operation failed by raising makes no
\* increment of redis_cache_hits_total or redis_cache_misses_total; when it
\* has completed it has made exactly two updates, one increment of
\* redis_operations_total{operation} and then one observation of
\* redis_operation_duration_seconds{operation}; the caller receives the
\* failure, and only after both updates.
C18_CacheFailure ==
    \A c \in Calls :
        (call[c].wrapper = "cache" /\ call[c].func[1] = "raise") =>
            LET f == call[c]
                operation == f.args[1]
            IN /\ Events(c, "inc", "redis_cache_hits_total") = {}
               /\ Events(c, "inc", "redis_cache_misses_total") = {}
               /\ Len(trace[c]) <= 2
               /\ Completed(c) =>
                     /\ trace[c] = << Event("inc", "redis_operations_total", <<operation>>, 1),
                                      Event("observe", "redis_operation_duration_seconds",
                                            <<operation>>, trace[c][2].v) >>
                     /\ f.out = f.func
               /\ ~Completed(c) => f.out = NoOutcome

C18_Witness ==
    \E c \in Calls :
        /\ Completed(c) /\ call[c].wrapper = "cache" /\ call[c].args[1] = "get"
        /\ call[c].out = Raised("ValueError")
        /\ Len(trace[c]) = 2
        /\ registry["redis_cache_hits_total"] = <<>>
        /\ registry["redis_cache_misses_total"] = <<>>
        /\ registry["redis_operations_total"][1].labels = <<"get">>
        /\ registry["redis_operations_total"][1].value = 1
        /\ registry["redis_operation_duration_seconds"][1].count = 1

RECURSIVE SumValues(_)
SumValues(children) ==
    IF children = <<>> THEN 0 ELSE Head(children).value + SumValues(Tail(children))

\* redis_cache_hits_total + redis_cache_misses_total, over all key types.
HitsAndMisses ==
    SumValues(registry["redis_cache_hits_total"])
        + SumValues(registry["redis_cache_misses_total"])

\* redis_operations_total{operation='get'}
OperationsGet ==
    SumValues(SelectSeq(registry["redis_operations_total"], LAMBDA x : x.labels = <<"get">>))

CacheGet(c) == call[c].wrapper = "cache" /\ call[c].args[1] = "get"

\* Call c is between its hit/miss increment and its operation-count increment.
BetweenIncrements(c) ==
    CacheGet(c) /\ call[c].func[1] = "return" /\ call[c].pc = "finally"

\* The wrapped 'get' of call c has failed.
GetFailed(c) == CacheGet(c) /\ call[c].func[1] = "raise"

\* The failed 'get' of call c has made its operation-count increment.
GetFailedCounted(c) == GetFailed(c) /\ call[c].pc \in {"observe", "done"}

\* Every completed cache call has incremented redis_operations_total of its
\* operation exactly once, and no cache call more than once.
OperationCountedOnce ==
    \A c \in Calls : call[c].wrapper = "cache" =>
        LET n == Cardinality({i \in Events(c, "inc", "redis_operations_total") :
                                 trace[c][i].labels = <<call[c].args[1]>>})
        IN /\ n <= 1
           /\ Cardinality(Events(c, "inc", "redis_operations_total")) = n
           /\ Completed(c) => n = 1

\* C19 as stated: every completed cache call has counted its operation
\* exactly once; in every state with no call between its hit/miss increment
\* and its operation-count increment, hits + misses <= operations{get}, with
\* equality exactly when no wrapped 'get' has failed; with calls between
\* their two increments the sum exceeds the count by at most 1 per such call.
C19_HitsMissesVsOperations ==
    service = "product" =>
        /\ OperationCountedOnce
        /\ (\A c \in Calls : ~BetweenIncrements(c)) =>
              /\ HitsAndMisses <= OperationsGet
              /\ HitsAndMisses = OperationsGet <=> (\A c \in Calls : ~GetFailed(c))
        /\ HitsAndMisses <= OperationsGet + Cardinality({c \in Calls : BetweenIncrements(c)})

\* C19, amended: every completed cache call has counted its operation
\* exactly once; in every state, hits + misses + (failed 'get' calls that
\* have made their operation-count increment) = operations{get} + (calls
\* between their hit/miss and operation-count increments); so with no call
\* between its two increments hits + misses <= operations{get}, with
\* equality exactly when no failed 'get' has made its operation-count
\* increment.
C19_OperationsAccounting ==
    service = "product" =>
        LET counted == Cardinality({c \in Calls : GetFailedCounted(c)})
            between == Cardinality({c \in Calls : BetweenIncrements(c)})
        IN /\ OperationCountedOnce
           /\ HitsAndMisses + counted = OperationsGet + between
           /\ between = 0 =>
                 /\ HitsAndMisses <= OperationsGet
                 /\ HitsAndMisses = OperationsGet <=> counted = 0

C19_Witness ==
    \E c, d \in Calls :
        /\ Completed(c) /\ GetFailed(c)
        /\ Completed(d) /\ CacheGet(d) /\ call[d].func[1] = "return"
        /\ HitsAndMisses = 1 /\ OperationsGet = 2

\* A call between its two increments: the sum exceeds the count by 1.
C19_ExceedsByOne ==
    /\ service = "product"
    /\ \E c \in Calls : BetweenIncrements(c)
    /\ HitsAndMisses = OperationsGet + 1

\* The (method, endpoint) pairs that have an instance of an HTTP metric.
HttpPairs ==
    {<<registry["http_requests_total"][i].labels[1], registry["http_requests_total"][i].labels[2]>> :
        i \in 1..Len(registry["http_requests_total"])}
    \cup {registry["http_request_duration_seconds"][i].labels :
             i \in 1..Len(registry["http_request_duration_seconds"])}

\* The sum over all status values of http_requests_total{method, endpoint, status}.
RequestsOf(pair) ==
    SumValues(SelectSeq(registry["http_requests_total"],
                        LAMBDA x : <<x.labels[1], x.labels[2]>> = pair))

RECURSIVE SumCounts(_)
SumCounts(children) ==
    IF children = <<>> THEN 0 ELSE Head(children).count + SumCounts(Tail(children))

\* The observation count of http_request_duration_seconds{method, endpoint}.
ObservationsOf(pair) ==
    SumCounts(SelectSeq(registry["http_request_duration_seconds"],
                        LAMBDA x : x.labels = pair))

\* The calls that have counted a request at pair and not yet observed its
\* duration: a decorator or the middleware between its two updates.
BetweenCountAndObserve(pair) ==
    {c \in Calls :
        \/ /\ call[c].pc = "observe" /\ call[c].wrapper = "endpoint"
           /\ EndpointDurationLabels(service, call[c].args[1]) = pair
        \/ /\ call[c].pc = "mw_observe"
           /\ RequestDurationLabels(call[c].request) = pair}

\* C20: for every (method, endpoint), the sum over the status values of
\* http_requests_total equals the observation count of
\* http_request_duration_seconds plus the number of decorators and
\* middleware calls that are between their request count and their
\* observation at that pair; so the two are equal whenever no decorator or
\* middleware is between its two updates.
C20_CountsMatchObservations ==
    /\ \A pair \in HttpPairs :
          RequestsOf(pair) = ObservationsOf(pair) + Cardinality(BetweenCountAndObserve(pair))
    /\ (\A c \in Calls : call[c].pc \notin {"observe", "mw_observe"}) =>
          \A pair \in HttpPairs : RequestsOf(pair) = ObservationsOf(pair)

C20_Witness ==
    \E c, d \in Calls :
        /\ Completed(c) /\ Completed(d)
        /\ call[c].request = ProductRequest
        /\ call[d].request = <<>> /\ call[d].out = Raised("ValueError")
        /\ RequestsOf(<<"GET", "get_product">>) = 2
        /\ ObservationsOf(<<"GET", "get_product">>) = 2
        /\ Len(registry["http_requests_total"]) = 3
        /\ RequestsOf(<<"GET", "/products/p1">>) = 1
        /\ ObservationsOf(<<"GET", "/products/p1">>) = 1

\* call_next has handed a response to the middleware of call c.
GotResponse(c) == call[c].request # <<>> /\ call[c].response.status_code # 0

\* C21: a request to a decorated route that has completed with a response
\* has made exactly four updates, in this order: the decorator's request
\* count at (GET, endpoint name, decorator status) and its observation at
\* (GET, endpoint name), then the middleware's request count at (request
\* verb, URL path, response status) and its observation at (request verb,
\* URL path); the middleware never updates before the decorator has made
\* both of its updates; the two statuses are equal when the handler
\* returned, and for a handler that raised an HTTPException the decorator
\* recorded 500 and the middleware the 404 of the response.
C21_CountedTwice ==
    \A c \in Calls : call[c].wrapper = "endpoint" =>
        LET f == call[c]
            dl == <<"GET", f.args[1]>>
            ml == <<f.request[1], f.request[2]>>
        IN /\ f.args[1] = (IF f.request = SearchRequest THEN "search_products" ELSE "get_product")
           /\ (Completed(c) /\ GotResponse(c)) =>
                 /\ Len(trace[c]) = 4
                 /\ trace[c][1] = Event("inc", "http_requests_total",
                                       Append(dl, StatusLabel(f.status_code)), 1)
                 /\ trace[c][2] = Event("observe", "http_request_duration_seconds", dl, trace[c][2].v)
                 /\ trace[c][3] = Event("inc", "http_requests_total",
                                       Append(ml, StatusLabel(f.response.status_code)), 1)
                 /\ trace[c][4] = Event("observe", "http_request_duration_seconds", ml, trace[c][4].v)
                 /\ dl # ml
                 /\ f.func[1] = "return" => f.status_code = f.response.status_code
                 /\ f.func = Raised("HTTPException") =>
                       (f.status_code = 500 /\ f.response.status_code = 404)
           /\ \A n \in 1..Len(trace[c]) :
                 trace[c][n].labels[2] = f.request[2] => n >= 3

C21_Witness ==
    \E c, d \in Calls :
        /\ c # d /\ Completed(c) /\ Completed(d)
        /\ call[c].request = SearchRequest /\ call[c].func = Raised("HTTPException")
        /\ trace[c][1].labels = <<"GET", "search_products", "500">>
        /\ trace[c][3].labels = <<"POST", "/products/search", "404">>
        /\ call[d].request = ProductRequest /\ call[d].func = Returned("dict")
        /\ trace[d][1].labels = <<"GET", "get_product", "200">>
        /\ trace[d][3].labels = <<"GET", "/products/p1", "200">>
        /\ SumValues(registry["http_requests_total"]) = 4
        /\ SumCounts(registry["http_request_duration_seconds"]) = 4

\* The updates of call c that the middleware made: those of the HTTP metrics
\* whose endpoint label is the path of the request.
MiddlewareEvents(c) ==
    {n \in 1..Len(trace[c]) :
        /\ trace[c][n].name \in {"http_requests_total", "http_request_duration_seconds"}
        /\ trace[c][n].labels[2] = call[c].request[2]}

\* What call_next did for call c: the outcome of the route handler.
HandlerOutcome(c) ==
    IF call[c].wrapper = "metrics" THEN Returned("Response200") ELSE call[c].func

====
